---------------------------- MODULE Spec2Model ----------------------------
(***************************************************************************)
(* git-lib: the credential codec (src/src/credentials.rs), the process     *)
(* runner (src/src/git_command.rs) and the GitLib operations built on them *)
(* (src/src/lib.rs).                                                       *)
(*                                                                         *)
(* Text is a sequence of bytes; a byte is written as a one-character       *)
(* string ("a", "=", "\n"), and the three bytes above 0x7F that the model  *)
(* uses are written "xC3", "xA9" and "xFF".  Option<T> is a sequence of    *)
(* length 0 (None) or 1 (Some(v)), so that None and Some("") differ.       *)
(* Result<T, E> is Ok(v) or Err(message).                                  *)
(***************************************************************************)
EXTENDS Integers, Sequences, FiniteSets

VARIABLES
    rec,        \* Option<Credentials>: the record the caller holds
    text,       \* Option<String>: the text handed to / produced by the codec
    textOf,     \* "none" | "input" | "display": where text came from
    parsed,     \* Option<Result<Credentials, ()>>: what from_str returned
    pc,         \* position of the GitLib call in progress
    op,         \* the GitLib operation called
    arg,        \* Option: the url (fill) or the record (approve / reject) passed in
    payload,    \* Option<Credentials>: payload handed to git_command
    argv,       \* the child's argument vector
    pending,    \* bytes of the payload write_all has not written yet
    stdinBuf,   \* bytes the child's standard input has received
    child,      \* "none" | "running" | "exited"
    run,        \* Option<Result<Output, Error>>: what run_git_command returned
    gc,         \* Option<Result<String, Error>>: what git_command returned
    result      \* Option<Result<_, Error>>: what the GitLib operation returned

codecVars == <<rec, text, textOf, parsed>>
runnerVars == <<pc, op, arg, payload, argv, pending, stdinBuf, child, run, gc, result>>
vars == <<rec, text, textOf, parsed, pc, op, arg, payload, argv, pending, stdinBuf,
          child, run, gc, result>>

(***************************************************************************)
(* Bounds.                                                                 *)
(***************************************************************************)
MaxLines == 2       \* lines of an input text handed to from_str
MaxChunk == 2       \* bytes one write(2) call inside write_all may accept

(***************************************************************************)
(* Option and Result.                                                      *)
(***************************************************************************)
None == <<>>
Some(v) == <<v>>
Ok(v) == [ok |-> TRUE, value |-> v]
Err(m) == [ok |-> FALSE, message |-> m]

NL == "\n"
EQ == "="

(***************************************************************************)
(* The field names of Credentials and the keys from_str matches.           *)
(***************************************************************************)
ScalarFields == {"protocol", "host", "path", "username", "password",
                 "password_expiry_utc", "oauth_refresh_token", "url"}

K_protocol == <<"p","r","o","t","o","c","o","l">>
K_host == <<"h","o","s","t">>
K_path == <<"p","a","t","h">>
K_username == <<"u","s","e","r","n","a","m","e">>
K_password == <<"p","a","s","s","w","o","r","d">>
K_password_expiry_utc ==
    <<"p","a","s","s","w","o","r","d","_","e","x","p","i","r","y","_","u","t","c">>
K_oauth_refresh_token ==
    <<"o","a","u","t","h","_","r","e","f","r","e","s","h","_","t","o","k","e","n">>
K_url == <<"u","r","l">>

\* credentials.rs: Credentials::with_url
with_url(url) ==
    [url |-> Some(url), username |-> None, password |-> None, protocol |-> None,
     host |-> None, path |-> None, password_expiry_utc |-> None,
     oauth_refresh_token |-> None, wwwauth |-> None]

\* credentials.rs: Credentials::with_url_username_password
with_url_username_password(url, username, password) ==
    [url |-> Some(url), username |-> Some(username), password |-> Some(password),
     protocol |-> None, host |-> None, path |-> None, password_expiry_utc |-> None,
     oauth_refresh_token |-> None, wwwauth |-> None]

(***************************************************************************)
(* str::split(sep): the pieces between the separators, at least one piece. *)
(***************************************************************************)
split(s, sep) ==
    LET seps == {i \in 1..Len(s) : s[i] = sep}
        n == Cardinality(seps)
        pos(k) == CHOOSE i \in seps : Cardinality({j \in seps : j <= i}) = k
        first(k) == IF k = 1 THEN 1 ELSE pos(k - 1) + 1
        last(k) == IF k = n + 1 THEN Len(s) ELSE pos(k) - 1
    IN  [k \in 1..(n + 1) |-> SubSeq(s, first(k), last(k))]

\* A plausible slip: keys compared without regard to case ("Url" taken as "url").
match_key_nocase(key, value, acc) ==
    IF key = K_protocol THEN [acc EXCEPT !.protocol = Some(value)]
    ELSE IF key = K_host THEN [acc EXCEPT !.host = Some(value)]
    ELSE IF key = K_path THEN [acc EXCEPT !.path = Some(value)]
    ELSE IF key = K_password THEN [acc EXCEPT !.password = Some(value)]
    ELSE IF key = K_username THEN [acc EXCEPT !.username = Some(value)]
    ELSE IF key = K_password_expiry_utc THEN [acc EXCEPT !.password_expiry_utc = Some(value)]
    ELSE IF key = K_oauth_refresh_token THEN [acc EXCEPT !.oauth_refresh_token = Some(value)]
    ELSE IF key = K_url \/ key = <<"U","r","l">> THEN [acc EXCEPT !.url = Some(value)]
    ELSE acc

\* credentials.rs: the match on key inside from_str
match_key(key, value, acc) ==
    IF key = K_protocol THEN [acc EXCEPT !.protocol = Some(value)]
    ELSE IF key = K_host THEN [acc EXCEPT !.host = Some(value)]
    ELSE IF key = K_path THEN [acc EXCEPT !.path = Some(value)]
    ELSE IF key = K_password THEN [acc EXCEPT !.password = Some(value)]
    ELSE IF key = K_username THEN [acc EXCEPT !.username = Some(value)]
    ELSE IF key = K_password_expiry_utc THEN [acc EXCEPT !.password_expiry_utc = Some(value)]
    ELSE IF key = K_oauth_refresh_token THEN [acc EXCEPT !.oauth_refresh_token = Some(value)]
    ELSE IF key = K_url THEN [acc EXCEPT !.url = Some(value)]
    ELSE acc

\* A plausible slip: a field already set is kept (first write wins).
parse_line_first(line, acc) ==
    LET words == split(line, EQ)
        new == IF Len(words) >= 2 THEN match_key(words[1], words[2], acc) ELSE acc
    IN  [f \in DOMAIN acc |-> IF acc[f] # None THEN acc[f] ELSE new[f]]

\* credentials.rs: the body of the loop over lines in from_str:
\* words = line.split('='); key = words.next(); value = words.next()
parse_line(line, acc) ==
    LET words == split(line, EQ)
    IN  IF Len(words) >= 2 THEN match_key(words[1], words[2], acc) ELSE acc

RECURSIVE parse_lines(_, _)
parse_lines(lines, acc) ==
    IF lines = <<>> THEN acc
    ELSE parse_lines(Tail(lines), parse_line(Head(lines), acc))

\* credentials.rs: the locals of from_str before the loop (all None)
NoFields ==
    [url |-> None, username |-> None, password |-> None, protocol |-> None,
     host |-> None, path |-> None, password_expiry_utc |-> None,
     oauth_refresh_token |-> None, wwwauth |-> None]

\* credentials.rs: impl FromStr for Credentials
from_str(s) == Ok(parse_lines(split(s, NL), NoFields))

\* credentials.rs: maybe_writeln inside Display::fmt
maybe_writeln(key, value) ==
    IF value # None THEN key \o <<EQ>> \o value[1] \o <<NL>> ELSE <<>>

\* credentials.rs: impl Display for Credentials (Credentials::to_string)
fmt(c) ==
    maybe_writeln(K_protocol, c.protocol)
    \o maybe_writeln(K_host, c.host)
    \o maybe_writeln(K_path, c.path)
    \o maybe_writeln(K_username, c.username)
    \o maybe_writeln(K_password, c.password)
    \o maybe_writeln(K_password_expiry_utc \o <<"(", ")">>, c.password_expiry_utc)
    \o maybe_writeln(K_oauth_refresh_token \o <<"(", ")">>, c.oauth_refresh_token)
    \o maybe_writeln(K_url, c.url)

(***************************************************************************)
(* Inputs of the codec.                                                    *)
(***************************************************************************)
\* Values of a key=value line: empty, plain, and with '=' inside.
Values == {<<>>, <<"a">>, <<"b">>, <<"=">>, <<"a", "=", "b">>}

\* Keys of the input lines: the eight recognized names, a name that differs
\* in case only, and the empty key.
InputKeys == {K_protocol, K_host, K_path, K_username, K_password,
              K_password_expiry_utc, K_oauth_refresh_token, K_url,
              <<"U","r","l">>, <<>>}

\* Lines without '=': the blank line and a bare word.
BareLines == {<<>>, K_url}

Lines == {k \o <<EQ>> \o v : k \in InputKeys, v \in Values} \cup BareLines

RECURSIVE join(_)
join(ls) ==
    IF ls = <<>> THEN <<>>
    ELSE IF Len(ls) = 1 THEN ls[1]
    ELSE ls[1] \o <<NL>> \o join(Tail(ls))

\* The examples of the specification's testable properties.
ExampleFirstEq == K_password \o <<"=", "a","b","c","=","d","e","f">>
ExampleLastWrite == K_username \o <<"=","a",NL>> \o K_username \o <<"=","b">>

InputTexts ==
    {join(ls) : ls \in UNION {[1..n -> Lines] : n \in 0..MaxLines}}
    \cup {ExampleFirstEq, ExampleLastWrite}

\* Strings a caller passes to the constructors (any string, newline included).
CtorStrings == Values \cup {<<"a", NL, "b">>}

(***************************************************************************)
(* The codec as the caller drives it.                                      *)
(***************************************************************************)
CodecIdle == rec = None /\ text = None /\ parsed = None

RunnerInit ==
    /\ pc = "idle" /\ op = "none" /\ arg = None /\ payload = None /\ argv = <<>>
    /\ pending = <<>> /\ stdinBuf = <<>> /\ child = "none"
    /\ run = None /\ gc = None /\ result = None

Init ==
    /\ rec = None /\ text = None /\ textOf = "none" /\ parsed = None
    /\ RunnerInit

WithUrl ==
    /\ CodecIdle
    /\ \E u \in CtorStrings : rec' = Some(with_url(u))
    /\ UNCHANGED <<text, textOf, parsed>>
    /\ UNCHANGED runnerVars

WithUrlUsernamePassword ==
    /\ CodecIdle
    /\ \E u \in CtorStrings, n \in CtorStrings, p \in CtorStrings :
          rec' = Some(with_url_username_password(u, n, p))
    /\ UNCHANGED <<text, textOf, parsed>>
    /\ UNCHANGED runnerVars

\* The caller obtains a text to parse.
Input ==
    /\ CodecIdle
    /\ \E t \in InputTexts : text' = Some(t)
    /\ textOf' = "input"
    /\ UNCHANGED <<rec, parsed>>
    /\ UNCHANGED runnerVars

\* credentials.to_string()
to_string ==
    /\ rec # None /\ text = None
    /\ text' = Some(fmt(rec[1]))
    /\ textOf' = "display"
    /\ UNCHANGED <<rec, parsed>>
    /\ UNCHANGED runnerVars

\* Credentials::from_str(text)
FromStr ==
    /\ text # None /\ parsed = None
    /\ parsed' = Some(from_str(text[1]))
    /\ UNCHANGED <<rec, text, textOf>>
    /\ UNCHANGED runnerVars

\* The caller keeps the parsed record as the record it holds.
Keep ==
    /\ parsed # None /\ parsed[1].ok /\ textOf = "input"
    /\ rec' = Some(parsed[1].value)
    /\ text' = None /\ textOf' = "none" /\ parsed' = None
    /\ UNCHANGED runnerVars

Drop ==
    /\ ~CodecIdle
    /\ rec' = None /\ text' = None /\ textOf' = "none" /\ parsed' = None
    /\ UNCHANGED runnerVars

CodecNext ==
    \/ WithUrl
    \/ WithUrlUsernamePassword
    \/ Input
    \/ to_string
    \/ FromStr
    \/ Keep
    \/ Drop

CodecSpec == Init /\ [][CodecNext]_vars

(***************************************************************************)
(* The process runner (git_command.rs) and the GitLib operations (lib.rs). *)
(***************************************************************************)
\* Messages of the errors the runner builds.  A message is text; the messages
\* that come from the system are kept as one opaque element each.
SpawnError == <<"spawn: os error">>
WriteError == <<"write_all: os error">>
WaitError == <<"wait_with_output: os error">>
CantGetStdin == <<"Can't get stdin">>
Utf8Error == <<"invalid utf-8 sequence">>

Unit == "()"

\* std::str::from_utf8 over the bytes of the model: "xC3" leads a two-byte
\* sequence, "xA9" is a continuation byte, "xFF" is never valid, every other
\* byte is ASCII.
from_utf8(bytes) ==
    LET valid ==
            \A i \in 1..Len(bytes) :
                /\ bytes[i] # "xFF"
                /\ bytes[i] = "xC3" => (i < Len(bytes) /\ bytes[i + 1] = "xA9")
                /\ bytes[i] = "xA9" => (i > 1 /\ bytes[i - 1] = "xC3")
    IN  IF valid THEN Ok(bytes) ELSE Err(Utf8Error)

\* A plausible slip: the exit status is not looked at.
git_command_nostatus(r) ==
    IF ~r.ok THEN r
    ELSE LET stdout == from_utf8(r.value.stdout)
         IN  IF stdout.ok THEN Ok(stdout.value) ELSE Err(stdout.message)

\* git_command.rs: GitCommand::git_command, applied to what run_git_command returned
git_command(r) ==
    IF ~r.ok THEN r
    ELSE IF r.value.success
    THEN LET stdout == from_utf8(r.value.stdout)
         IN  IF stdout.ok THEN Ok(stdout.value) ELSE Err(stdout.message)
    ELSE LET stderr == from_utf8(r.value.stderr)
         IN  IF stderr.ok THEN Err(stderr.value) ELSE Err(stderr.message)

\* git_command.rs: GitCommand::git_args
git_args(command, args) ==
    <<command>> \o (IF args # None THEN args[1] ELSE <<>>)

\* A plausible slip: strip_suffix, which removes one match only.
trim_end_once(s, c) ==
    IF s # <<>> /\ s[Len(s)] = c THEN SubSeq(s, 1, Len(s) - 1) ELSE s

\* str::trim_end_matches(c): every trailing c is removed
trim_end_matches(s, c) ==
    LET keep == {i \in 0..Len(s) : i = 0 \/ s[i] # c}
        n == CHOOSE i \in keep : \A j \in keep : j <= i
    IN  SubSeq(s, 1, n)

\* PathBuf::from_str: infallible, the path holds the string's bytes
PathBuf_from_str(s) == Ok([inner |-> s])

\* lib.rs: what each operation makes of git_command's result
remote_add_result(g) == IF g.ok THEN Ok(Unit) ELSE g

remote_url_result(g) == IF g.ok THEN Ok(trim_end_matches(g.value, NL)) ELSE g

\* A plausible slip: the tool's answer is read ("true" / "false").
is_inside_work_tree_reads(g) ==
    IF g.ok THEN Ok(trim_end_matches(g.value, NL) = <<"t","r","u","e">>) ELSE g

is_inside_work_tree_result(g) == IF g.ok THEN Ok(TRUE) ELSE g

top_level_result(g) ==
    IF g.ok
    THEN LET p == PathBuf_from_str(trim_end_matches(g.value, NL))
         IN  IF p.ok THEN Ok(p.value) ELSE Err(p.message)
    ELSE g

credentials_fill_result(g) ==
    IF g.ok
    THEN LET c == from_str(g.value)
         IN  IF c.ok THEN Ok(c.value)
             ELSE Err(<<"Failed converting output to credentials">>)
    ELSE g

credentials_approve_result(g) == IF g.ok THEN Ok(Unit) ELSE g

credentials_reject_result(g) == IF g.ok THEN Ok(Unit) ELSE g

op_result(o, g) ==
    CASE o = "remote_add" -> remote_add_result(g)
      [] o = "remote_url" -> remote_url_result(g)
      [] o = "is_inside_work_tree" -> is_inside_work_tree_result(g)
      [] o = "top_level" -> top_level_result(g)
      [] o = "credentials_fill" -> credentials_fill_result(g)
      [] o = "credentials_approve" -> credentials_approve_result(g)
      [] o = "credentials_reject" -> credentials_reject_result(g)

(***************************************************************************)
(* Inputs of the runner: what callers pass and what the tool answers.      *)
(***************************************************************************)
Repos == {"origin"}
RemoteUrls == {"http://example.com/r.git"}
FillUrls == {<<"u">>, <<"h","=","1">>}
Usernames == {<<"a">>}
Passwords == {<<"b">>, <<>>}

Stdouts ==
    { <<>>,
      <<NL>>,
      <<"/","p">>,
      <<"/","p",NL>>,
      <<"/","p",NL,NL>>,
      <<"f","a","l","s","e",NL>>,
      <<"t","r","u","e",NL>>,
      K_username \o <<"=","a",NL>> \o K_password \o <<"=","b",NL>>,
      K_password \o <<"=","a","=","b",NL>> \o K_url \o <<"=","u",NL>>,
      K_password_expiry_utc \o <<"=","1",NL>> \o K_host \o <<"=","h",NL>>,
      <<"/","xC3","xA9",NL>>,
      <<"/","xC3">>,
      <<"xFF",NL>> }

Stderrs == { <<>>, <<"f","a","t","a","l",NL>>, <<"xFF">> }

Idle == pc = "idle"

\* The caller builds a record for approve / reject.
Build ==
    /\ Idle
    /\ \E u \in FillUrls, n \in Usernames, p \in Passwords :
          rec' = Some(with_url_username_password(u, n, p))
    /\ UNCHANGED <<text, textOf, parsed>>
    /\ UNCHANGED runnerVars

\* The call of git_command an operation makes: the command, its arguments and
\* the payload.
Invoke(o, a, command, args, pl) ==
    /\ op' = o /\ arg' = a
    /\ argv' = git_args(command, args)
    /\ payload' = pl
    /\ pc' = "spawn"
    /\ UNCHANGED <<pending, stdinBuf, child, run, gc, result>>
    /\ UNCHANGED codecVars

remote_add ==
    /\ Idle
    /\ \E repo \in Repos, url \in RemoteUrls :
        Invoke("remote_add", Some(<<repo, url>>), "remote", Some(<<"add", repo, url>>), None)

remote_url ==
    /\ Idle
    /\ \E repo \in Repos :
        Invoke("remote_url", Some(<<repo>>), "remote", Some(<<"get-url", repo>>), None)

is_inside_work_tree ==
    /\ Idle
    /\ Invoke("is_inside_work_tree", None, "rev-parse", Some(<<"--is-inside-work-tree">>), None)

top_level ==
    /\ Idle
    /\ Invoke("top_level", None, "rev-parse", Some(<<"--show-toplevel">>), None)

credentials_fill ==
    /\ Idle
    /\ \E url \in FillUrls :
        Invoke("credentials_fill", Some(url), "credential", Some(<<"fill">>),
               Some(with_url(url)))

credentials_approve ==
    /\ Idle /\ rec # None
    /\ Invoke("credentials_approve", rec, "credential", Some(<<"approve">>), rec)

credentials_reject ==
    /\ Idle /\ rec # None
    /\ Invoke("credentials_reject", rec, "credential", Some(<<"reject">>), rec)

(***************************************************************************)
(* run_git_command, step by step.                                          *)
(***************************************************************************)
\* command.spawn() succeeds
Spawn ==
    /\ pc = "spawn"
    /\ child' = "running"
    /\ pc' = IF payload # None THEN "take" ELSE "wait"
    /\ UNCHANGED <<op, arg, payload, argv, pending, stdinBuf, run, gc, result>>
    /\ UNCHANGED codecVars

\* command.spawn() fails
SpawnFail ==
    /\ pc = "spawn"
    /\ run' = Some(Err(SpawnError))
    /\ pc' = "run_done"
    /\ UNCHANGED <<op, arg, payload, argv, pending, stdinBuf, child, gc, result>>
    /\ UNCHANGED codecVars

\* A plausible slip: the payload is written without the added newline.
TakeStdin_nonl ==
    /\ pc = "take"
    /\ pending' = fmt(payload[1])
    /\ pc' = "write"
    /\ UNCHANGED <<op, arg, payload, argv, stdinBuf, child, run, gc, result>>
    /\ UNCHANGED codecVars

\* payload.to_string(), push('\n'), child_process.stdin.take() is Some
TakeStdin ==
    /\ pc = "take"
    /\ pending' = fmt(payload[1]) \o <<NL>>
    /\ pc' = "write"
    /\ UNCHANGED <<op, arg, payload, argv, stdinBuf, child, run, gc, result>>
    /\ UNCHANGED codecVars

\* child_process.stdin.take() is None: the arm the code keeps for a child
\* without an input pipe (the library decides which arm is taken)
TakeStdinNone ==
    /\ pc = "take"
    /\ run' = Some(Err(CantGetStdin))
    /\ pc' = "run_done"
    /\ UNCHANGED <<op, arg, payload, argv, pending, stdinBuf, child, gc, result>>
    /\ UNCHANGED codecVars

\* write_all: one write call accepts the next k bytes; after the last byte
\* write_all returns Ok and the pipe is closed
WriteChunk ==
    /\ pc = "write" /\ pending # <<>>
    /\ \E k \in 1..MaxChunk :
        /\ k <= Len(pending)
        /\ stdinBuf' = stdinBuf \o SubSeq(pending, 1, k)
        /\ pending' = SubSeq(pending, k + 1, Len(pending))
        /\ pc' = IF k = Len(pending) THEN "wait" ELSE "write"
    /\ UNCHANGED <<op, arg, payload, argv, child, run, gc, result>>
    /\ UNCHANGED codecVars

\* A plausible slip: the result of write_all is dropped and the call goes on.
WriteFail_ignored ==
    /\ pc = "write" /\ pending # <<>>
    /\ pc' = "wait"
    /\ UNCHANGED <<op, arg, payload, argv, pending, stdinBuf, child, run, gc, result>>
    /\ UNCHANGED codecVars

\* write_all: a write call fails
WriteFail ==
    /\ pc = "write" /\ pending # <<>>
    /\ run' = Some(Err(WriteError))
    /\ pc' = "run_done"
    /\ UNCHANGED <<op, arg, payload, argv, pending, stdinBuf, child, gc, result>>
    /\ UNCHANGED codecVars

\* wait_with_output() returns the exit status and the two streams
Wait ==
    /\ pc = "wait"
    /\ \E success \in BOOLEAN, stdout \in Stdouts, stderr \in Stderrs :
          run' = Some(Ok([success |-> success, stdout |-> stdout, stderr |-> stderr]))
    /\ child' = "exited"
    /\ pc' = "run_done"
    /\ UNCHANGED <<op, arg, payload, argv, pending, stdinBuf, gc, result>>
    /\ UNCHANGED codecVars

\* wait_with_output() fails
WaitFail ==
    /\ pc = "wait"
    /\ run' = Some(Err(WaitError))
    /\ pc' = "run_done"
    /\ UNCHANGED <<op, arg, payload, argv, pending, stdinBuf, child, gc, result>>
    /\ UNCHANGED codecVars

\* git_command interprets the output and the operation returns
Return ==
    /\ pc = "run_done"
    /\ gc' = Some(git_command(run[1]))
    /\ result' = Some(op_result(op, git_command(run[1])))
    /\ pc' = "returned"
    /\ UNCHANGED <<op, arg, payload, argv, pending, stdinBuf, child, run>>
    /\ UNCHANGED codecVars

\* Nothing is retained between invocations.
Forget ==
    /\ pc = "returned"
    /\ pc' = "idle" /\ op' = "none" /\ arg' = None /\ payload' = None /\ argv' = <<>>
    /\ pending' = <<>> /\ stdinBuf' = <<>> /\ child' = "none"
    /\ run' = None /\ gc' = None /\ result' = None
    /\ UNCHANGED codecVars

\* The caller keeps the record credentials_fill returned (to approve or reject it).
KeepFilled ==
    /\ pc = "returned" /\ op = "credentials_fill" /\ result[1].ok
    /\ rec' = Some(result[1].value)
    /\ pc' = "idle" /\ op' = "none" /\ arg' = None /\ payload' = None /\ argv' = <<>>
    /\ pending' = <<>> /\ stdinBuf' = <<>> /\ child' = "none"
    /\ run' = None /\ gc' = None /\ result' = None
    /\ UNCHANGED <<text, textOf, parsed>>

Next ==
    \/ Build
    \/ remote_add
    \/ remote_url
    \/ is_inside_work_tree
    \/ top_level
    \/ credentials_fill
    \/ credentials_approve
    \/ credentials_reject
    \/ Spawn
    \/ SpawnFail
    \/ TakeStdin
    \/ TakeStdinNone
    \/ WriteChunk
    \/ WriteFail
    \/ Wait
    \/ WaitFail
    \/ Return
    \/ Forget
    \/ KeepFilled

Spec == Init /\ [][Next]_vars

(***************************************************************************)
(* The wire format as the specification states it, for the properties      *)
(* below.                                                                  *)
(***************************************************************************)
FieldKey(f) ==
    CASE f = "protocol" -> K_protocol
      [] f = "host" -> K_host
      [] f = "path" -> K_path
      [] f = "username" -> K_username
      [] f = "password" -> K_password
      [] f = "password_expiry_utc" -> K_password_expiry_utc
      [] f = "oauth_refresh_token" -> K_oauth_refresh_token
      [] f = "url" -> K_url

RecognizedKeys == {FieldKey(f) : f \in ScalarFields}

HasEq(line) == \E i \in 1..Len(line) : line[i] = EQ

FirstEq(line) ==
    CHOOSE i \in 1..Len(line) : line[i] = EQ /\ \A j \in 1..(i - 1) : line[j] # EQ

KeyOf(line) == SubSeq(line, 1, FirstEq(line) - 1)

\* The entire remainder of the line after its first '='.
RestOf(line) == SubSeq(line, FirstEq(line) + 1, Len(line))

Recognized(line) == HasEq(line) /\ KeyOf(line) \in RecognizedKeys

\* The lines of text t that carry field f, by position.
LinesFor(f, ls) == {i \in DOMAIN ls : HasEq(ls[i]) /\ KeyOf(ls[i]) = FieldKey(f)}

Last(S) == CHOOSE i \in S : \A j \in S : j <= i

ExpectedLine(f, r) ==
    IF r[f] # None THEN FieldKey(f) \o <<EQ>> \o r[f][1] \o <<NL>> ELSE <<>>

\* One line key=value per present field, in the fixed order, nothing else.
ExpectedText(r) ==
    ExpectedLine("protocol", r) \o ExpectedLine("host", r) \o ExpectedLine("path", r)
    \o ExpectedLine("username", r) \o ExpectedLine("password", r)
    \o ExpectedLine("password_expiry_utc", r)
    \o ExpectedLine("oauth_refresh_token", r) \o ExpectedLine("url", r)

\* Every present scalar field is non-empty and holds no newline.
RoundTripInput(r) ==
    \A f \in ScalarFields :
        r[f] # None =>
            /\ r[f][1] # <<>>
            /\ \A i \in 1..Len(r[f][1]) : r[f][1][i] # NL

\* from_str has returned for a text the caller supplied
ParsedInput == textOf = "input" /\ text # None /\ parsed # None

\* from_str has returned for the Display output of the record the caller holds
ParsedDisplay == textOf = "display" /\ text # None /\ parsed # None /\ rec # None

(***************************************************************************)
(* C1.  Round trip: for a record whose present scalar fields are non-empty *)
(* and newline-free, from_str applied to its Display output gives back the *)
(* same eight scalar fields.                                               *)
(***************************************************************************)
C1_RoundTrip ==
    (ParsedDisplay /\ RoundTripInput(rec[1])) =>
        /\ parsed[1].ok
        /\ \A f \in ScalarFields : parsed[1].value[f] = rec[1][f]

(***************************************************************************)
(* C2.  First-'='-only split: the field of a recognized key holds the      *)
(* entire remainder of its (last) line after the first '='.                *)
(***************************************************************************)
C2_FirstEqOnly ==
    ParsedInput =>
        LET ls == split(text[1], NL)
        IN  \A f \in ScalarFields :
                LinesFor(f, ls) # {} =>
                    parsed[1].value[f] = Some(RestOf(ls[Last(LinesFor(f, ls))]))

(***************************************************************************)
(* C3.  Serialize: the Display output is exactly one line key=value per    *)
(* present scalar field, the key being the recognized field name, in the   *)
(* fixed order, and nothing for an absent field or for wwwauth.            *)
(***************************************************************************)
C3_Serialize ==
    (textOf = "display" /\ text # None /\ rec # None) => text[1] = ExpectedText(rec[1])

(***************************************************************************)
(* C7.  Parse never fails: from_str returns Ok; the lines without '=' and  *)
(* the lines whose key is not one of the eight names change no field (the  *)
(* record is the one parsed from the recognized lines alone), and a text   *)
(* with no recognized line gives the all-absent record.                    *)
(***************************************************************************)
C7_ParseNeverFails ==
    ParsedInput =>
        LET ls == split(text[1], NL)
        IN  /\ parsed[1].ok
            /\ parsed[1].value = from_str(join(SelectSeq(ls, Recognized))).value
            /\ (\A i \in DOMAIN ls : ~Recognized(ls[i])) =>
                   \A f \in DOMAIN parsed[1].value : parsed[1].value[f] = None

C7_Witness ==
    /\ ParsedInput
    /\ text[1] = <<"U","r","l","=","a",NL>> \o K_url
    /\ parsed[1] = Ok(NoFields)

(***************************************************************************)
(* C8.  Last write wins: a field holds what its last line assigns (what    *)
(* from_str makes of that line alone), whatever the earlier lines of the   *)
(* same key and the lines of other keys say; a field with no line is       *)
(* absent.                                                                 *)
(***************************************************************************)
C8_LastWriteWins ==
    ParsedInput =>
        LET ls == split(text[1], NL)
        IN  \A f \in ScalarFields :
                parsed[1].value[f] =
                    IF LinesFor(f, ls) = {} THEN None
                    ELSE from_str(ls[Last(LinesFor(f, ls))]).value[f]

C8_Witness ==
    /\ ParsedInput
    /\ text[1] = ExampleLastWrite
    /\ parsed[1].value.username = Some(<<"b">>)

(***************************************************************************)
(* Properties of the runner and of the operations.                         *)
(***************************************************************************)
Returned == pc = "returned" /\ result # None

ValidUtf8(bytes) == from_utf8(bytes).ok

\* What the payload handed to git_command puts on the wire: its string form
\* (the Display output) and one more newline.
Wire(c) == fmt(c) \o <<NL>>

(***************************************************************************)
(* C4.  git_command's result is decided by the exit status: on failure an  *)
(* error whose message is the standard-error text (never Ok, whatever      *)
(* standard output holds); on success Ok with the standard-output text     *)
(* unchanged; a selected stream that is not valid UTF-8 gives an error.    *)
(***************************************************************************)
C4_ResultByExitStatus ==
    (gc # None /\ run # None /\ run[1].ok) =>
        LET o == run[1].value
            g == gc[1]
        IN  /\ ~o.success =>
                /\ ~g.ok
                /\ ValidUtf8(o.stderr) => g.message = o.stderr
                /\ ~ValidUtf8(o.stderr) => g.message = Utf8Error
            /\ o.success =>
                /\ ValidUtf8(o.stdout) => (g.ok /\ g.value = o.stdout)
                /\ ~ValidUtf8(o.stdout) => (~g.ok /\ g.message = Utf8Error)

C4_Witness ==
    /\ gc # None /\ run # None /\ run[1].ok
    /\ ~run[1].value.success
    /\ run[1].value.stdout = <<"/","p",NL>>
    /\ run[1].value.stderr = <<"f","a","t","a","l",NL>>
    /\ gc[1] = Err(<<"f","a","t","a","l",NL>>)

(***************************************************************************)
(* C5.  When credentials_fill / approve / reject succeeds, the child's     *)
(* standard input has received exactly the string form of the record (the  *)
(* record built from the url for fill, the caller's record for approve and *)
(* reject) plus one newline; the operations without payload write nothing. *)
(***************************************************************************)
C5_StdinPayload ==
    /\ (Returned /\ result[1].ok /\ op = "credentials_fill") =>
           stdinBuf = Wire(with_url(arg[1]))
    /\ (Returned /\ result[1].ok /\ op \in {"credentials_approve", "credentials_reject"}) =>
           stdinBuf = Wire(arg[1])
    /\ op \in {"remote_add", "remote_url", "is_inside_work_tree", "top_level"} =>
           stdinBuf = <<>>

C5_Witness ==
    /\ Returned /\ result[1].ok /\ op = "credentials_approve"
    /\ arg[1].username = Some(<<"a">>)
    /\ stdinBuf = Wire(arg[1])

(***************************************************************************)
(* C6.  As claimed: remote_url and top_level remove one trailing newline   *)
(* from the output, if it ends in one.                                     *)
(***************************************************************************)
ReturnedText ==
    IF op = "top_level" THEN result[1].value.inner ELSE result[1].value

C6_SingleNewlineTrimmed ==
    (Returned /\ op \in {"remote_url", "top_level"} /\ result[1].ok) =>
        ReturnedText = trim_end_once(gc[1].value, NL)

(***************************************************************************)
(* C6, amended.  remote_url and top_level remove every trailing newline:   *)
(* the value returned is the output up to and including its last byte that *)
(* is not a newline.                                                       *)
(***************************************************************************)
C6_TrailingNewlinesTrimmed ==
    (Returned /\ op \in {"remote_url", "top_level"} /\ result[1].ok) =>
        LET s == gc[1].value
            v == ReturnedText
        IN  /\ Len(v) <= Len(s)
            /\ v = SubSeq(s, 1, Len(v))
            /\ \A i \in (Len(v) + 1)..Len(s) : s[i] = NL
            /\ v # <<>> => v[Len(v)] # NL

C6_Witness ==
    /\ Returned /\ op = "top_level" /\ result[1].ok
    /\ gc[1].value = <<"/","p",NL,NL>>
    /\ result[1].value.inner = <<"/","p">>

(***************************************************************************)
(* C9.  run_git_command goes spawn, then the whole write (when there is a  *)
(* payload), then wait.  Nothing is written before the spawn; the wait     *)
(* completes only after the whole payload was written; an Output is        *)
(* returned only with the child spawned, the payload and its newline       *)
(* written in full and the child exited; a failing step returns an error   *)
(* with the later steps not done; and once the call has returned no step   *)
(* follows.                                                                *)
(***************************************************************************)
IsProperPrefix(a, b) == Len(a) < Len(b) /\ a = SubSeq(b, 1, Len(a))

StepOrder ==
    /\ child = "none" => (stdinBuf = <<>> /\ pending = <<>>)
    /\ child = "exited" => pending = <<>>
    /\ (run # None /\ run[1].ok) =>
          /\ child = "exited"
          /\ stdinBuf = IF payload # None THEN Wire(payload[1]) ELSE <<>>
    /\ (run # None /\ ~run[1].ok) =>
          /\ child # "exited"
          /\ run[1].message = SpawnError => child = "none"
          /\ run[1].message = CantGetStdin => (child = "running" /\ stdinBuf = <<>>)
          /\ run[1].message = WriteError =>
                (child = "running" /\ IsProperPrefix(stdinBuf, Wire(payload[1])))
          /\ run[1].message = WaitError =>
                stdinBuf = IF payload # None THEN Wire(payload[1]) ELSE <<>>

NoStepAfterReturn ==
    (run # None /\ pc' # "idle") =>
        (run' = run /\ child' = child /\ stdinBuf' = stdinBuf /\ pending' = pending)

C9_StepOrder == [](StepOrder) /\ [][NoStepAfterReturn]_vars

C9_Witness ==
    /\ run # None /\ run[1].ok
    /\ payload # None
    /\ child = "exited"
    /\ stdinBuf = Wire(payload[1])

(***************************************************************************)
(* C10.  As claimed, for an invocation that ran to its exit:               *)
(* is_inside_work_tree returns Ok(true) exactly when the tool exits with   *)
(* success and valid text output, and an error carrying the tool's         *)
(* standard-error text otherwise.                                          *)
(***************************************************************************)
C10_ErrorIsStderrOtherwise ==
    (Returned /\ op = "is_inside_work_tree" /\ run[1].ok) =>
        LET o == run[1].value
        IN  IF o.success /\ ValidUtf8(o.stdout)
            THEN result[1] = Ok(TRUE)
            ELSE ~result[1].ok /\ result[1].message = o.stderr

(***************************************************************************)
(* C10, amended.  is_inside_work_tree never returns Ok(false): it returns  *)
(* Ok(true) exactly when the tool exits with success and valid text        *)
(* output, whatever the text; otherwise it returns an error, whose message *)
(* is the tool's standard-error text when the tool exited with failure and *)
(* that text is valid UTF-8, the decoding error's message when the         *)
(* selected stream is not valid UTF-8, and the system's message when the   *)
(* spawn or the wait failed.                                               *)
(***************************************************************************)
C10_NeverOkFalse ==
    (Returned /\ op = "is_inside_work_tree") =>
        LET r == run[1]
            good == r.ok /\ r.value.success /\ ValidUtf8(r.value.stdout)
        IN  /\ result[1].ok <=> good
            /\ result[1].ok => result[1].value = TRUE
            /\ ~r.ok => result[1] = r
            /\ (r.ok /\ ~r.value.success /\ ValidUtf8(r.value.stderr)) =>
                  result[1] = Err(r.value.stderr)
            /\ (r.ok /\ ~r.value.success /\ ~ValidUtf8(r.value.stderr)) =>
                  result[1] = Err(Utf8Error)
            /\ (r.ok /\ r.value.success /\ ~ValidUtf8(r.value.stdout)) =>
                  result[1] = Err(Utf8Error)

C10_Witness ==
    /\ Returned /\ op = "is_inside_work_tree"
    /\ run[1].ok /\ run[1].value.success
    /\ run[1].value.stdout = <<"f","a","l","s","e",NL>>
    /\ result[1] = Ok(TRUE)

=============================================================================
